---- MODULE Spec2Model ----
(***************************************************************************)
(* Model of the lint engine of ly_python_tools (package lint/):            *)
(*   - the execution run: _run_linters -> _exec_linters -> Linter.exec,    *)
(*     one asyncio task per configured linter, serialized by one           *)
(*     asyncio.Lock around snapshot -> subprocess -> diff -> assert;       *)
(*   - iter_returns over the gathered outcomes and the exit decision;      *)
(*   - the retrying bootstrap PyRightLinter.bootstrap.                     *)
(***************************************************************************)
EXTENDS Integers, Sequences, FiniteSets, TLC

\* ------------------------------------------------------------------ bounds
NumLinters == 2      \* linters of config.linters modelled (the registry has 6)
NumFiles == 1        \* files of the resolved file set
MaxItems == 3        \* length of an arbitrary outcome list given to iter_returns
MaxHelpReturnCode == 2   \* return codes of a health check are 0..MaxHelpReturnCode
MaxKeys == 2         \* environment variables modelled
MaxDepth == 2        \* search paths of get_configfile (cwd and its parents)
MaxOpts == 2         \* length of an option list and of a file list of a command line
MaxArgs == 3         \* path arguments on the command line of main
PipeCapacity == 2       \* units of output a pipe holds before a write to it blocks

\* ------------------------------------------------------------- Python values
None == <<>>
Some(x) == <<x>>
\* Python truth value of an Optional[int]: None and 0 are false.
Truthy(opt) == opt # None /\ opt[1] # 0

Tasks == 1..NumLinters
Files == 1..NumFiles
\* Return codes are only tested for truth and copied: success and one failure.
ReturnCodes == {0, 1}
\* st_mtime values and md5 digests are only compared for equality.
Mtimes == {0, 1}
Digests == {0, 1}

\* ------------------------------------------------------------- file system
\* What stat() and the md5 of the content give for one path.
AbsentFile == [exists |-> FALSE, mtime |-> 0, digest |-> 0]
FileStates == {AbsentFile} \cup [exists : {TRUE}, mtime : Mtimes, digest : Digests]
InitialFile == [exists |-> TRUE, mtime |-> 0, digest |-> 0]

\* _PathModified.__post_init__ : stat() and open() raise when the path is gone.
CanSnapshot(fs) == \A f \in Files : fs[f].exists

\* _PathModified.modified, for a path that still exists.
modified(snap, cur) ==
    IF cur.mtime # snap.mtime THEN cur.digest # snap.digest ELSE FALSE

RECURSIVE SelectFiles(_, _, _)
SelectFiles(f, snap, fs) ==
    IF f > NumFiles THEN <<>>
    ELSE (IF modified(snap[f], fs[f]) THEN <<f>> ELSE <<>>) \o SelectFiles(f + 1, snap, fs)

\* ModifiedPaths.__aenter__ : each _PathModified stores what stat() and md5
\* give for its path at that moment.
TakeSnapshotStale(fs) == [f \in Files |-> InitialFile]
TakeSnapshot(fs) == fs

\* ModifiedPaths.__aexit__ : the watched paths, in order, that are modified.
modified_paths(snap, fs) == SelectFiles(1, snap, fs)

\* ------------------------------------------------------------- descriptors
\* A Linter descriptor.  "writes" is the behaviour of the external tool:
\* whether its subprocess may write to the files it is given.  A tool declared
\* mutable may write; a tool declared non-mutable may write all the same.
DisabledLinter == [run |-> FALSE, mutable |-> FALSE, writes |-> FALSE]
LinterKinds ==
    {DisabledLinter}
    \cup {[run |-> TRUE, mutable |-> TRUE, writes |-> TRUE]}
    \cup [run : {TRUE}, mutable : {FALSE}, writes : BOOLEAN]

\* ------------------------------------------------------------- outcomes
NoneItem == [kind |-> "none"]
LintExecResultZero(t, rc, mod) ==
    [kind |-> "result", linter |-> t, returncode |-> Some(0), modified_files |-> mod]
LintExecResult(t, rc, mod) ==
    [kind |-> "result", linter |-> t, returncode |-> Some(rc), modified_files |-> mod]
Raised(t, err) == [kind |-> "exc", linter |-> t, err |-> err]
Pending == [kind |-> "pending"]

VARIABLES
    linters,     \* config.linters : Tasks -> LinterKinds
    files,       \* the file system : Files -> FileStates
    pc,          \* position of each _exec_linter task
    lock,        \* the asyncio.Lock of _exec_linters
    snapshot,    \* ModifiedPaths._watch_paths of each task
    proc,        \* the subprocess of each task: none, or active until it exits
    outcome,     \* the slot of each task in asyncio.gather's result
    detected,    \* ModifiedPaths.modified_paths after __aexit__, None before
    wrote,       \* the files each task's subprocess has written (history)
    items,       \* the list handed to iter_returns
    yielded,     \* the items iter_returns yielded to the for loop
    _exit,       \* _run_linters : the local _exit
    runState,    \* position of _run_linters
    raised,      \* the MultipleExceptions raised by iter_returns (its .exceptions)
    exitStatus,  \* exit status of the process, None while it runs
    bpc,         \* position of PyRightLinter.bootstrap
    retry,       \* PyRightLinter.bootstrap : the local retry
    bootstrap,   \* PyRightLinter.bootstrap : the local bootstrap (a result)
    attempts,    \* the results of the calls of Linter.bootstrap made so far
    returned,    \* what PyRightLinter.bootstrap returned, None before
    bphase,      \* position of each _bootstrap_linter task
    bresult,     \* the slot of each task in the gather of _bootstrap_linters
    battempts,   \* the calls of Linter.bootstrap each task has made
    breported,   \* the results the loop of _bootstrap went through
    env,         \* os.environ : key -> Some(value), None when unset
    envArgs,     \* environ(**env) : the keyword arguments
    original_env, \* environ : the local original_env
    envAtEntry,  \* os.environ when environ was entered (history)
    epc,         \* position of the with-statement using environ
    lint_config, \* get_config : the [tool.lint] table of pyproject.toml
    registry,    \* the module-level DEFAULT_LINTERS
    config,      \* get_config : the descriptors it returned, <<>> before
    project_files, \* per search path (cwd, then its parents): holds pyproject.toml
    bootstrapOpt, \* main : the --bootstrap flag
    lookup,      \* main : what get_configfile returned or raised, None before
    cmdLinter,   \* Linter.exec : self (the fields the command line is built from)
    cmdFiles,    \* Linter.exec : the argument files
    cmd,         \* Linter.exec : the local cmd, None before
    argv_files,  \* _resolve_files : the argument files (paths of the command line)
    found_files, \* _resolve_files : the local found_files, None before
    toWrite,     \* output each subprocess still has to write to its pipes
    pipe         \* output of each subprocess buffered and not read yet

execVars == <<linters, files, pc, lock, snapshot, proc, outcome, detected, wrote>>
iterVars == <<items, yielded, _exit, runState, raised, exitStatus>>
bootVars == <<bpc, retry, bootstrap, attempts, returned>>
phaseVars == <<bphase, bresult, battempts, breported>>
envVars == <<env, envArgs, original_env, envAtEntry, epc>>
cfgVars == <<lint_config, registry, config>>
mainVars == <<project_files, bootstrapOpt, lookup>>
cmdVars == <<cmdLinter, cmdFiles, cmd>>
resolveVars == <<argv_files, found_files>>
pipeVars == <<toWrite, pipe>>
extraVars == <<mainVars, cmdVars, resolveVars, pipeVars>>
vars == <<linters, files, pc, lock, snapshot, proc, outcome, detected, wrote,
          items, yielded, _exit, runState, raised, exitStatus,
          bpc, retry, bootstrap, attempts, returned,
          bphase, bresult, battempts, breported,
          env, envArgs, original_env, envAtEntry, epc,
          lint_config, registry, config,
          project_files, bootstrapOpt, lookup,
          cmdLinter, cmdFiles, cmd, argv_files, found_files,
          toWrite, pipe>>

\* ------------------------------------------------------------- asyncio.Lock
FreeLock == [locked |-> FALSE, waiters |-> <<>>]
\* Lock.acquire takes the lock at once only when it is free and nobody waits.
CanAcquireNoLock(lk) == TRUE
CanAcquire(lk) == ~lk.locked /\ lk.waiters = <<>>
\* Lock.release (async with lock: __aexit__), on the normal path.
releaseSkipped(lk) == lk
release(lk) == [lk EXCEPT !.locked = FALSE]
\* Lock.release on the path where the body raised.
releaseKept(lk) == lk
releaseOnError(lk) == [lk EXCEPT !.locked = FALSE]

NoProc == "none"
ActiveProc == "active"

\* ------------------------------------------------------------- registry
\* A Linter descriptor as get_config sees it (the fields it can override).
Descriptor(exe, mut, passf, cls) ==
    [executable |-> exe, mutable |-> mut, run |-> TRUE,
     pass_filenames |-> passf, class |-> cls]

\* DEFAULT_LINTERS, in the insertion order of the dict.
DEFAULT_LINTERS ==
    << [name |-> "pyupgrade", linter |-> Descriptor("pyupgrade", TRUE, TRUE, "Linter")],
       [name |-> "black", linter |-> Descriptor("black", TRUE, TRUE, "Linter")],
       [name |-> "isort", linter |-> Descriptor("isort", TRUE, TRUE, "Linter")],
       [name |-> "flake8", linter |-> Descriptor("flake8", FALSE, TRUE, "Linter")],
       [name |-> "pyright", linter |-> Descriptor("pyright", FALSE, FALSE, "PyRightLinter")],
       [name |-> "prospector", linter |-> Descriptor("prospector", FALSE, TRUE, "Linter")] >>

\* ------------------------------------------------------------- os.environ
EnvKeys == 1..MaxKeys
EnvValues == {"a", "b"}
EnvStates == [EnvKeys -> {None} \cup {Some(v) : v \in EnvValues}]

\* No bootstrap phase is running.
PhaseIdle ==
    /\ bphase = [t \in Tasks |-> "idle"]
    /\ bresult = [t \in Tasks |-> Pending]
    /\ battempts = [t \in Tasks |-> 0]
    /\ breported = <<>>

\* No environ scope is open.
EnvIdle ==
    /\ env = [k \in EnvKeys |-> None]
    /\ envArgs = <<>>
    /\ original_env = <<>>
    /\ envAtEntry = [k \in EnvKeys |-> None]
    /\ epc = "off"

\* get_config is not being called.
CfgIdle ==
    /\ lint_config = <<>>
    /\ registry = DEFAULT_LINTERS
    /\ config = <<>>

\* main is not being run, no command line is being built, no arguments are
\* being resolved, and the subprocesses write nothing to their pipes.
ExtraIdle ==
    /\ project_files = <<>>
    /\ bootstrapOpt = FALSE
    /\ lookup = None
    /\ cmdLinter = None
    /\ cmdFiles = <<>>
    /\ cmd = None
    /\ argv_files = <<>>
    /\ found_files = None
    /\ toWrite = [t \in Tasks |-> 0]
    /\ pipe = [t \in Tasks |-> 0]

IterIdle ==
    /\ items = <<>>
    /\ yielded = <<>>
    /\ _exit = 0
    /\ raised = None
    /\ exitStatus = None

\* No bootstrap is running.
BootIdle ==
    /\ bpc = "idle"
    /\ retry = 0
    /\ bootstrap = None
    /\ attempts = <<>>
    /\ returned = None

Init ==
    /\ linters \in [Tasks -> LinterKinds]
    /\ files = [f \in Files |-> InitialFile]
    /\ pc = [t \in Tasks |-> "start"]
    /\ lock = FreeLock
    /\ snapshot = [t \in Tasks |-> None]
    /\ proc = [t \in Tasks |-> NoProc]
    /\ outcome = [t \in Tasks |-> Pending]
    /\ detected = [t \in Tasks |-> None]
    /\ wrote = [t \in Tasks |-> {}]
    /\ runState = "gather"
    /\ IterIdle
    /\ BootIdle
    /\ PhaseIdle
    /\ EnvIdle
    /\ CfgIdle
    /\ ExtraIdle

\* ------------------------------------------------------------- environ
\* environ : "original_env = {key: os.getenv(key) for key in env}"
\* (os.getenv gives None for a key that is not set).
SaveOriginal(e, args) == [k \in DOMAIN args |-> e[k]]

\* os.environ.update(env)
UpdateEnviron(e, args) ==
    [k \in EnvKeys |-> IF k \in DOMAIN args THEN Some(args[k]) ELSE e[k]]

\* environ, the finally block: "del os.environ[key]" for a key saved as
\* None, "os.environ[key] = value" for the others.
RestoreSetOnly(e, orig) ==
    [k \in EnvKeys |-> IF k \in DOMAIN orig /\ orig[k] # None THEN orig[k] ELSE e[k]]
Restore(e, orig) ==
    [k \in EnvKeys |->
        IF k \in DOMAIN orig
        THEN (IF orig[k] = None THEN None ELSE orig[k])
        ELSE e[k]]

\* ------------------------------------------------------------- pyright_env
PYRIGHT_PYTHON_ENV_DIR == 1
PYRIGHT_PYTHON_GLOBAL_NODE == 2

\* The task of the registry that is the PyRightLinter: its bootstrap and its
\* exec are decorated with pyright_env.
PyRightTask == NumLinters

\* pyright_env : the keyword arguments it gives environ.  The directory is
\* the resolved value of PYRIGHT_PYTHON_ENV_DIR when that is set, and the
\* resolved default directory when not.
pyright_env_args(e) ==
    (PYRIGHT_PYTHON_ENV_DIR :>
        (IF e[PYRIGHT_PYTHON_ENV_DIR] = None THEN "default" ELSE "resolved"))
    @@ (PYRIGHT_PYTHON_GLOBAL_NODE :> "off")

\* wrap_pyright_env around the coroutine of task t, in a step of that task:
\* begins says that the step starts the decorated coroutine, how whether the
\* step ends it ("returned", "raised") or not ("no").  The with-statement
\* is entered before the coroutine runs and left when it returns or raises.
pyright_env(t, begins, how) ==
    IF t # PyRightTask \/ (~begins /\ (how = "no" \/ epc # "inside"))
    THEN UNCHANGED envVars
    ELSE LET args == IF begins THEN pyright_env_args(env) ELSE envArgs
             saved == IF begins THEN SaveOriginal(env, args) ELSE original_env
             inside == IF begins THEN UpdateEnviron(env, args) ELSE env
         IN /\ envArgs' = args
            /\ original_env' = saved
            /\ envAtEntry' = IF begins THEN env ELSE envAtEntry
            /\ env' = IF how = "no" THEN inside ELSE Restore(inside, saved)
            /\ epc' = IF how = "no" THEN "inside" ELSE how

\* The environment the process is started with: PYRIGHT_PYTHON_ENV_DIR is
\* set by the caller, as features/steps/lint_env.py does, and
\* PYRIGHT_PYTHON_GLOBAL_NODE is not set; leaving the scope has one key to
\* set back and one key to delete.
ProcessEnvs ==
    {[k \in EnvKeys |-> IF k = PYRIGHT_PYTHON_ENV_DIR THEN Some("a") ELSE None]}

\* How a step of task t ends its coroutine, read from the slot gather fills.
Ends(done, slot) ==
    IF ~done THEN "no" ELSE IF slot.kind = "exc" THEN "raised" ELSE "returned"

\* ------------------------------------------------------------- Linter.exec
\* _exec_linter : "if not linter.run: return" (the task's outcome is None).
SkippedInverted(l) == l.run
Skipped(l) == ~l.run

\* The assertion closing the protected window of Linter.exec.
AssertRemoved(mod, mutable) == TRUE
AssertHolds(mod, mutable) == mod = <<>> \/ mutable

\* A task whose body raised: the exception leaves "async with lock", which
\* releases the lock, and gather(return_exceptions=True) stores it in the slot.
Fail(t, lk, err) ==
    /\ lock' = releaseOnError(lk)
    /\ outcome' = [outcome EXCEPT ![t] = Raised(t, err)]
    /\ pc' = [pc EXCEPT ![t] = "done"]
    /\ snapshot' = [snapshot EXCEPT ![t] = None]
    /\ proc' = [proc EXCEPT ![t] = NoProc]

\* "async with lock:" entered with the lock taken, then ModifiedPaths.__aenter__
\* snapshots every file; no suspension point lies between the two.
Enter(t, lk) ==
    LET held == [lk EXCEPT !.locked = TRUE] IN
    IF CanSnapshot(files)
    THEN /\ lock' = held
         /\ snapshot' = [snapshot EXCEPT ![t] = Some(TakeSnapshot(files))]
         /\ pc' = [pc EXCEPT ![t] = "launch"]
         /\ UNCHANGED <<outcome, proc, detected>>
    ELSE /\ Fail(t, held, "snapshot")
         /\ UNCHANGED detected

\* _exec_linter up to its first suspension point.
\* main : "if bootstrap: _bootstrap(config)" returns, or exits, before
\* "_run_linters(config, files)" hands the execution tasks to asyncio.run.
ExecDispatchedEarly(rs) == rs \in {"bootstrap", "gather"}

ExecDispatched(rs) == rs = "gather"

StartTask(t) ==
    /\ ExecDispatched(runState)
    /\ pc[t] = "start"
    /\ IF Skipped(linters[t])
       THEN /\ outcome' = [outcome EXCEPT ![t] = NoneItem]
            /\ pc' = [pc EXCEPT ![t] = "done"]
            /\ UNCHANGED <<lock, snapshot, proc, detected>>
       ELSE IF CanAcquire(lock)
            THEN Enter(t, lock)
            ELSE /\ lock' = [lock EXCEPT !.waiters = Append(@, t)]
                 /\ pc' = [pc EXCEPT ![t] = "waiting"]
                 /\ UNCHANGED <<outcome, snapshot, proc, detected>>
    /\ UNCHANGED <<linters, files, wrote>>
    /\ UNCHANGED iterVars
    /\ UNCHANGED bootVars
    /\ UNCHANGED <<phaseVars, cfgVars>>
    /\ pyright_env(t, ~Skipped(linters[t]), Ends(pc'[t] = "done", outcome'[t]))
    /\ UNCHANGED extraVars

\* Lock.release woke the first waiter; it takes the lock when it runs again.
Resume(t) ==
    /\ pc[t] = "waiting"
    /\ lock.waiters # <<>>
    /\ Head(lock.waiters) = t
    /\ ~lock.locked
    /\ Enter(t, [lock EXCEPT !.waiters = Tail(@)])
    /\ UNCHANGED <<linters, files, wrote>>
    /\ UNCHANGED iterVars
    /\ UNCHANGED bootVars
    /\ UNCHANGED <<phaseVars, cfgVars>>
    /\ pyright_env(t, FALSE, Ends(pc'[t] = "done", outcome'[t]))
    /\ UNCHANGED extraVars

\* run_proc : asyncio.create_subprocess_exec either starts the process or
\* raises (the executable is not there); raising leaves both context managers.
Launch(t) ==
    /\ pc[t] = "launch"
    /\ \E started \in BOOLEAN :
         IF started
         THEN /\ proc' = [proc EXCEPT ![t] = ActiveProc]
              /\ pc' = [pc EXCEPT ![t] = "running"]
              /\ UNCHANGED <<lock, outcome, snapshot, detected>>
         ELSE IF CanSnapshot(files)
              THEN /\ Fail(t, lock, "launch")
                   /\ detected' = [detected EXCEPT
                          ![t] = Some(modified_paths(snapshot[t][1], files))]
              ELSE /\ Fail(t, lock, "diff")
                   /\ UNCHANGED detected
    /\ UNCHANGED <<linters, files, wrote>>
    /\ UNCHANGED iterVars
    /\ UNCHANGED bootVars
    /\ UNCHANGED <<phaseVars, cfgVars>>
    /\ pyright_env(t, FALSE, Ends(pc'[t] = "done", outcome'[t]))
    /\ UNCHANGED extraVars

\* The external tool rewrites, touches, removes or recreates a file: the net
\* effect of the subprocess on one file (nothing observes the file between
\* two writes of the same subprocess, the task reads it after the exit).
ProcWrite(t, f, s) ==
    /\ proc[t] = ActiveProc
    /\ linters[t].writes
    /\ f \notin wrote[t]
    /\ s # files[f]
    /\ files' = [files EXCEPT ![f] = s]
    /\ wrote' = [wrote EXCEPT ![t] = @ \cup {f}]
    /\ UNCHANGED <<linters, pc, lock, snapshot, proc, outcome, detected>>
    /\ UNCHANGED iterVars
    /\ UNCHANGED bootVars
    /\ UNCHANGED <<phaseVars, envVars, cfgVars>>
    /\ UNCHANGED extraVars

\* The subprocess exits with return code rc and the task resumes after
\* proc.wait(): ModifiedPaths.__aexit__ diffs the files, the output is read,
\* the assertion is checked, the lock is released.  (Nothing the task reads
\* changes between the exit and its resumption: it holds the lock.)
\* run_proc : "await proc.wait()" returns when the subprocess has exited, and
\* the subprocess exits when it has written all its output.  stdout and
\* stderr are read only after the wait.
ProcCanExit(t) == toWrite[t] = 0

FinishWindow(t, rc) ==
    /\ pc[t] = "running"
    /\ proc[t] = ActiveProc
    /\ ProcCanExit(t)
    /\ IF ~CanSnapshot(files)
       THEN /\ Fail(t, lock, "diff")
            /\ UNCHANGED detected
       ELSE LET mod == modified_paths(snapshot[t][1], files) IN
            /\ detected' = [detected EXCEPT ![t] = Some(mod)]
            /\ IF AssertHolds(mod, linters[t].mutable)
               THEN /\ lock' = release(lock)
                    /\ outcome' = [outcome EXCEPT
                           ![t] = LintExecResult(t, rc, mod)]
                    /\ pc' = [pc EXCEPT ![t] = "done"]
                    /\ snapshot' = [snapshot EXCEPT ![t] = None]
                    /\ proc' = [proc EXCEPT ![t] = NoProc]
               ELSE Fail(t, lock, "assert")
    /\ UNCHANGED <<linters, files, wrote>>
    /\ UNCHANGED iterVars
    /\ UNCHANGED bootVars
    /\ UNCHANGED <<phaseVars, cfgVars>>
    /\ pyright_env(t, FALSE, Ends(pc'[t] = "done", outcome'[t]))
    /\ pipe' = [pipe EXCEPT ![t] = 0]
    /\ UNCHANGED <<mainVars, cmdVars, resolveVars, toWrite>>

\* ------------------------------------------------------------- _exec_linters
\* asyncio.gather(..., return_exceptions=True) returns when every task is done.
\* asyncio.gather(*[...for linter in config.linters], return_exceptions=True):
\* the list of the tasks' results or exceptions, in the order of the
\* awaitables, which is the order of config.linters.
gatherReversed(slots) == [i \in 1..NumLinters |-> slots[NumLinters + 1 - i]]

gather(slots) == [i \in 1..NumLinters |-> slots[i]]

GatherReady(pcs, outs) == \A t \in Tasks : pcs[t] = "done"

\* ------------------------------------------------------------- iter_returns
\* iter_returns : exceptions.append(item)
CollectLast(excs, item) == <<item>>
Collect(excs, item) == Append(excs, item)

\* The loop of iter_returns from item i on: ys are the items yielded so far,
\* excs the local list exceptions.
RECURSIVE iter_loop(_, _, _, _)
iter_loop(its, i, ys, excs) ==
    IF i > Len(its) THEN [yielded |-> ys, exceptions |-> excs]
    ELSE LET item == its[i] IN
         IF item.kind = "none" THEN iter_loop(its, i + 1, ys, excs)
         ELSE IF item.kind = "exc" THEN iter_loop(its, i + 1, ys, Collect(excs, item))
         ELSE iter_loop(its, i + 1, Append(ys, item), excs)

\* iter_returns, run to exhaustion: what it yielded and the exceptions it
\* collected; it ends by raising MultipleExceptions(exceptions) when
\* exceptions is not empty.
iter_returns(its) == iter_loop(its, 1, <<>>, <<>>)

\* _run_linters : the body of "for ret in iter_returns(...)" sets _exit.
ResultFailsReturncodeOnly(ret) == Truthy(ret.returncode)
ResultFails(ret) == ret.modified_files # <<>> \/ Truthy(ret.returncode)

\* The for loop of _run_linters over the list its (no suspension point in
\* it).  MultipleExceptions is caught nowhere: the interpreter exits 1;
\* otherwise sys.exit(1) when _exit is set, and a normal return when not.
LoopOver(its) ==
    LET it == iter_returns(its)
        flag == IF \E i \in DOMAIN it.yielded : ResultFails(it.yielded[i])
                THEN 1 ELSE 0
    IN /\ yielded' = it.yielded
       /\ _exit' = flag
       /\ IF it.exceptions # <<>>
          THEN /\ raised' = Some(it.exceptions)
               /\ exitStatus' = Some(1)
          ELSE /\ raised' = None
               /\ exitStatus' = Some(IF flag # 0 THEN 1 ELSE 0)
       /\ runState' = "exit"

\* _run_linters from the moment asyncio.run(_exec_linters(...)) returns the
\* gathered list: the loop over iter_returns and the exit.
RunLinters ==
    /\ runState = "gather"
    /\ GatherReady(pc, outcome)
    /\ items' = gather(outcome)
    /\ LoopOver(gather(outcome))
    /\ UNCHANGED execVars
    /\ UNCHANGED bootVars
    /\ UNCHANGED <<phaseVars, envVars, cfgVars>>
    /\ UNCHANGED extraVars

\* The same loop over a list that is already there.
RunLintersLoop ==
    /\ runState = "gathered"
    /\ LoopOver(items)
    /\ UNCHANGED execVars
    /\ UNCHANGED items
    /\ UNCHANGED bootVars
    /\ UNCHANGED <<phaseVars, envVars, cfgVars>>
    /\ UNCHANGED extraVars

Next ==
    \/ \E t \in Tasks : StartTask(t)
    \/ \E t \in Tasks : Resume(t)
    \/ \E t \in Tasks : Launch(t)
    \/ \E t \in Tasks, f \in Files, s \in FileStates : ProcWrite(t, f, s)
    \/ \E t \in Tasks, rc \in ReturnCodes : FinishWindow(t, rc)
    \/ RunLinters

\* One execution run (_run_linters over a non-empty file set), every
\* interleaving of its tasks and subprocesses.
Spec == Init /\ [][Next]_vars

\* A task's own steps; the event loop runs every task that is ready.
TaskStep(t) ==
    \/ StartTask(t)
    \/ Resume(t)
    \/ Launch(t)
    \/ \E rc \in ReturnCodes : FinishWindow(t, rc)

\* The execution run under a fair event loop, each subprocess exiting.
FairSpec ==
    /\ Spec
    /\ \A t \in Tasks : WF_vars(TaskStep(t))
    /\ WF_vars(RunLinters)

\* ------------------------------------------------- iter_returns on any input
\* No execution task is running.
ExecIdle ==
    /\ linters = [t \in Tasks |-> DisabledLinter]
    /\ files = [f \in Files |-> InitialFile]
    /\ pc = [t \in Tasks |-> "start"]
    /\ lock = FreeLock
    /\ snapshot = [t \in Tasks |-> None]
    /\ proc = [t \in Tasks |-> NoProc]
    /\ outcome = [t \in Tasks |-> Pending]
    /\ detected = [t \in Tasks |-> None]
    /\ wrote = [t \in Tasks |-> {}]

\* What asyncio.gather(return_exceptions=True) can hold in one slot.
ModifiedLists == {<<>>} \cup {<<f>> : f \in Files}
ItemDomain ==
    {NoneItem}
    \cup {Raised(t, "assert") : t \in Tasks}
    \cup {LintExecResult(t, rc, mod) : t \in Tasks, rc \in ReturnCodes, mod \in ModifiedLists}

InitIter ==
    /\ ExecIdle
    /\ BootIdle
    /\ PhaseIdle
    /\ EnvIdle
    /\ CfgIdle
    /\ ExtraIdle
    /\ items \in UNION {[1..n -> ItemDomain] : n \in 0..MaxItems}
    /\ yielded = <<>>
    /\ _exit = 0
    /\ raised = None
    /\ exitStatus = None
    /\ runState = "gathered"

NextIter == RunLintersLoop

\* The for loop of _run_linters over an arbitrary gathered list.
SpecIter == InitIter /\ [][NextIter]_vars

\* ------------------------------------------------------------- bootstrap
_retriesOneMore == 3 + 1
_retries == 3

HelpReturnCodes == 0..MaxHelpReturnCode

\* LintBootstrapResult(self.executable) : which and returncode default to None.
MissingResultZero == [which |-> None, returncode |-> Some(0)]
MissingResult == [which |-> None, returncode |-> None]
\* LintBootstrapResult of a health check that ran.
LintBootstrapResultNoPath(rc) == [which |-> None, returncode |-> Some(rc)]

LintBootstrapResult(rc) == [which |-> Some("which"), returncode |-> Some(rc)]

\* PyRightLinter.bootstrap : "while retry and bootstrap.returncode"
ShouldRetryNotZero(r, b) == r # 0 /\ b.returncode # Some(0)
ShouldRetry(r, b) == r # 0 /\ Truthy(b.returncode)

\* A call of Linter.bootstrap returns res to PyRightLinter.bootstrap: the
\* first call is followed by "retry = self._retries", a call made in the
\* loop by "retry -= 1".
AttemptDone(res) ==
    /\ bootstrap' = Some(res)
    /\ attempts' = Append(attempts, res)
    /\ retry' = IF attempts = <<>> THEN _retries ELSE retry - 1
    /\ bpc' = "while"

\* Linter.bootstrap up to its suspension point: shutil.which finds the
\* executable and the health check is launched, or the result is "missing".
BootWhich ==
    /\ bpc = "call"
    /\ \E found \in BOOLEAN :
         IF found
         THEN /\ bpc' = "proc"
              /\ UNCHANGED <<retry, bootstrap, attempts>>
         ELSE AttemptDone(MissingResult)
    /\ UNCHANGED returned
    /\ UNCHANGED execVars
    /\ UNCHANGED iterVars
    /\ UNCHANGED <<phaseVars, envVars, cfgVars>>
    /\ UNCHANGED extraVars

\* The health check "<which> --help" exits; Linter.bootstrap returns its result.
BootProcExit ==
    /\ bpc = "proc"
    /\ \E rc \in HelpReturnCodes : AttemptDone(LintBootstrapResult(rc))
    /\ UNCHANGED returned
    /\ UNCHANGED execVars
    /\ UNCHANGED iterVars
    /\ UNCHANGED <<phaseVars, envVars, cfgVars>>
    /\ UNCHANGED extraVars

\* The test of the while loop: call Linter.bootstrap again, or return.
BootWhile ==
    /\ bpc = "while"
    /\ IF ShouldRetry(retry, bootstrap[1])
       THEN /\ bpc' = "call"
            /\ UNCHANGED returned
       ELSE /\ bpc' = "returned"
            /\ returned' = bootstrap
    /\ UNCHANGED <<retry, bootstrap, attempts>>
    /\ UNCHANGED execVars
    /\ UNCHANGED iterVars
    /\ UNCHANGED <<phaseVars, envVars, cfgVars>>
    /\ UNCHANGED extraVars

InitBoot ==
    /\ ExecIdle
    /\ IterIdle
    /\ PhaseIdle
    /\ EnvIdle
    /\ CfgIdle
    /\ ExtraIdle
    /\ runState = "off"
    /\ bpc = "call"
    /\ retry = 0
    /\ bootstrap = None
    /\ attempts = <<>>
    /\ returned = None

NextBoot == BootWhich \/ BootProcExit \/ BootWhile

\* One call of PyRightLinter.bootstrap, every outcome of every attempt.
SpecBoot == InitBoot /\ [][NextBoot]_vars

\* ------------------------------------------------------- bootstrap phase
\* A LintBootstrapResult in a slot of the gather of _bootstrap_linters.
BootItem(t, res) ==
    [kind |-> "boot", linter |-> t, which |-> res.which, returncode |-> res.returncode]

\* _bootstrap_linter : "if not linter.run: return"
BootSkippedInverted(l) == l.run
BootSkipped(l) == ~l.run

\* A _bootstrap_linter task runs as soon as the event loop picks it: it
\* awaits no lock and no other task.
BootstrapReadySerial(t, ph) == ph[t] = "start" /\ \A u \in Tasks : ph[u] # "proc"
BootstrapReady(t, ph) == ph[t] = "start"

\* The task returned or raised: gather stores item in its slot.
BootstrapDone(t, item) ==
    /\ bphase' = [bphase EXCEPT ![t] = "done"]
    /\ bresult' = [bresult EXCEPT ![t] = item]

\* One call of Linter.bootstrap up to its suspension point: shutil.which
\* finds nothing and the result is "missing", or the health check is
\* started, or create_subprocess_exec raises.
BootstrapCall(t) ==
    /\ battempts' = [battempts EXCEPT ![t] = @ + 1]
    /\ \E how \in {"missing", "started", "raised"} :
         IF how = "started"
         THEN /\ bphase' = [bphase EXCEPT ![t] = "proc"]
              /\ UNCHANGED bresult
         ELSE IF how = "missing"
              THEN BootstrapDone(t, BootItem(t, MissingResult))
              ELSE BootstrapDone(t, Raised(t, "launch"))

\* _bootstrap_linter up to its first suspension point.
BootstrapStart(t) ==
    /\ runState = "bootstrap"
    /\ BootstrapReady(t, bphase)
    /\ IF BootSkipped(linters[t])
       THEN /\ BootstrapDone(t, NoneItem)
            /\ UNCHANGED battempts
       ELSE BootstrapCall(t)
    /\ UNCHANGED breported
    /\ UNCHANGED <<execVars, iterVars, bootVars, cfgVars>>
    /\ pyright_env(t, ~BootSkipped(linters[t]), Ends(bphase'[t] = "done", bresult'[t]))
    /\ UNCHANGED extraVars

\* The health check exits with rc and Linter.bootstrap returns its result;
\* PyRightLinter.bootstrap calls Linter.bootstrap again while retries are
\* left and the return code is non-zero (retry is _retries after the first
\* call and one less after each further call).
BootstrapExit(t, rc) ==
    /\ runState = "bootstrap"
    /\ bphase[t] = "proc"
    /\ LET res == LintBootstrapResult(rc)
           left == _retries - (battempts[t] - 1)
       IN IF t = PyRightTask /\ ShouldRetry(left, res)
          THEN BootstrapCall(t)
          ELSE /\ BootstrapDone(t, BootItem(t, res))
               /\ UNCHANGED battempts
    /\ UNCHANGED breported
    /\ UNCHANGED <<execVars, iterVars, bootVars, cfgVars>>
    /\ pyright_env(t, FALSE, Ends(bphase'[t] = "done", bresult'[t]))
    /\ UNCHANGED extraVars

\* _bootstrap : the body of "for ret in iter_returns(...)" sets _exit.
BootFailsReturncodeOnly(ret) == Truthy(ret.returncode)
BootFails(ret) == Truthy(ret.returncode) \/ ret.which = None

\* _bootstrap, from the moment asyncio.run(_bootstrap_linters(config))
\* returns the gathered list: the loop reports every result; an uncaught
\* MultipleExceptions or sys.exit(1) ends the process with status 1;
\* otherwise main goes on to _run_linters.  The event loop of asyncio.run
\* is closed by then: the tasks' slots and counters are gone, what the loop
\* went through stays in breported.
Bootstrap ==
    /\ runState = "bootstrap"
    /\ \A t \in Tasks : bphase[t] = "done"
    /\ LET it == iter_returns(gather(bresult))
           failed == \E i \in DOMAIN it.yielded : BootFails(it.yielded[i])
       IN /\ breported' = it.yielded
          /\ IF it.exceptions # <<>>
             THEN /\ raised' = Some(it.exceptions)
                  /\ exitStatus' = Some(1)
                  /\ runState' = "exit"
             ELSE IF failed
                  THEN /\ exitStatus' = Some(1)
                       /\ runState' = "exit"
                       /\ UNCHANGED raised
                  ELSE /\ runState' = "gather"
                       /\ UNCHANGED <<raised, exitStatus>>
    /\ bresult' = [t \in Tasks |-> Pending]
    /\ battempts' = [t \in Tasks |-> 0]
    /\ UNCHANGED <<items, yielded, _exit, bphase>>
    /\ UNCHANGED <<execVars, bootVars, envVars, cfgVars>>
    /\ UNCHANGED extraVars

InitMain ==
    /\ linters \in [Tasks -> LinterKinds]
    /\ files = [f \in Files |-> InitialFile]
    /\ pc = [t \in Tasks |-> "start"]
    /\ lock = FreeLock
    /\ snapshot = [t \in Tasks |-> None]
    /\ proc = [t \in Tasks |-> NoProc]
    /\ outcome = [t \in Tasks |-> Pending]
    /\ detected = [t \in Tasks |-> None]
    /\ wrote = [t \in Tasks |-> {}]
    /\ runState = "bootstrap"
    /\ IterIdle
    /\ BootIdle
    /\ bphase = [t \in Tasks |-> "start"]
    /\ bresult = [t \in Tasks |-> Pending]
    /\ battempts = [t \in Tasks |-> 0]
    /\ breported = <<>>
    /\ env \in ProcessEnvs
    /\ envArgs = <<>>
    /\ original_env = <<>>
    /\ envAtEntry = [k \in EnvKeys |-> None]
    /\ epc = "off"
    /\ CfgIdle
    /\ ExtraIdle

NextMain ==
    \/ \E t \in Tasks : BootstrapStart(t)
    \/ \E t \in Tasks, rc \in HelpReturnCodes : BootstrapExit(t, rc)
    \/ Bootstrap
    \/ Next

\* main with --bootstrap over a non-empty file set: the bootstrap phase,
\* then, when no bootstrap failed, the execution run.
SpecMain == InitMain /\ [][NextMain]_vars

\* ------------------------------------------------------- environ scope
\* "with environ(**env):" up to the yield.
EnvironEnter ==
    /\ epc = "call"
    /\ original_env' = SaveOriginal(env, envArgs)
    /\ env' = UpdateEnviron(env, envArgs)
    /\ epc' = "inside"
    /\ UNCHANGED <<envArgs, envAtEntry>>
    /\ UNCHANGED <<execVars, iterVars, bootVars, phaseVars, cfgVars>>
    /\ UNCHANGED extraVars

\* The body of the with-statement returns or raises; the finally block runs
\* in both cases and the exception, if any, goes on.
EnvironLeave ==
    /\ epc = "inside"
    /\ \E how \in {"returned", "raised"} : epc' = how
    /\ env' = Restore(env, original_env)
    /\ UNCHANGED <<envArgs, original_env, envAtEntry>>
    /\ UNCHANGED <<execVars, iterVars, bootVars, phaseVars, cfgVars>>
    /\ UNCHANGED extraVars

InitEnviron ==
    /\ ExecIdle
    /\ IterIdle
    /\ BootIdle
    /\ PhaseIdle
    /\ CfgIdle
    /\ ExtraIdle
    /\ runState = "off"
    /\ env \in EnvStates
    /\ envArgs \in UNION {[S -> EnvValues] : S \in SUBSET EnvKeys}
    /\ original_env = <<>>
    /\ envAtEntry = env
    /\ epc = "call"

NextEnviron == EnvironEnter \/ EnvironLeave

\* One environ scope, over every environment and every set of pairs.
SpecEnviron == InitEnviron /\ [][NextEnviron]_vars

\* ------------------------------------------------------------- get_config
\* The keys a [tool.lint] table is given here: two tools of the registry
\* and one name that is no tool of the registry.
ConfigKeys == {"black", "pyright", "mypy"}
\* The fields an override entry sets here, each to a boolean.
OverrideFields == {"mutable", "run"}
Overrides == UNION {[F -> BOOLEAN] : F \in SUBSET OverrideFields}
LintConfigs == UNION {[K -> Overrides] : K \in SUBSET ConfigKeys}

\* lint_config.get(linter_name, {})
GetOverride(cfg, name) == IF name \in DOMAIN cfg THEN cfg[name] ELSE <<>>

\* Linter.update : dataclasses.replace(self, **config) builds a new
\* descriptor of the same class, the named fields replaced.
updateKeepDefault(linter, cfg) == linter
update(linter, cfg) ==
    [fld \in DOMAIN linter |-> IF fld \in DOMAIN cfg THEN cfg[fld] ELSE linter[fld]]

\* LintConfiguration.get_config : the list comprehension over
\* DEFAULT_LINTERS.items(); the registry's own descriptors are not written.
get_config ==
    /\ config = <<>>
    /\ config' = [i \in DOMAIN registry |->
                     update(registry[i].linter, GetOverride(lint_config, registry[i].name))]
    /\ UNCHANGED <<lint_config, registry>>
    /\ UNCHANGED <<execVars, iterVars, bootVars, phaseVars, envVars>>
    /\ UNCHANGED extraVars

InitConfig ==
    /\ ExecIdle
    /\ IterIdle
    /\ BootIdle
    /\ PhaseIdle
    /\ EnvIdle
    /\ ExtraIdle
    /\ runState = "off"
    /\ lint_config \in LintConfigs
    /\ registry = DEFAULT_LINTERS
    /\ config = <<>>

NextConfig == get_config

\* One call of get_config, over every [tool.lint] table of the domain.
SpecConfig == InitConfig /\ [][NextConfig]_vars

\* ------------------------------------------------------------- main
\* NoProjectFile(cls._config_file, search_paths=paths)
NoProjectFile(paths) == [kind |-> "NoProjectFile", search_paths |-> paths]
\* The pyproject.toml found in the i-th search path.
FoundProject(i) == [kind |-> "found", path |-> i]

\* get_configfile : the for/else loop over cwd and its parents; dirs[i] says
\* whether the i-th path holds a pyproject.toml that exists and is a file.
RECURSIVE FindProject(_, _)
FindProject(dirs, i) ==
    IF i > Len(dirs) THEN NoProjectFile([k \in 1..Len(dirs) |-> k])
    ELSE IF dirs[i] THEN FoundProject(i)
    ELSE FindProject(dirs, i + 1)

get_configfile(dirs) == FindProject(dirs, 1)

\* main : "except NoProjectFile as e:"
CaughtNever(r) == FALSE
CaughtNoProjectFile(r) == r.kind = "NoProjectFile"

\* A linter that is enabled, declared non-mutable, and only reads.
CheckingLinter == [run |-> TRUE, mutable |-> FALSE, writes |-> FALSE]

\* main up to the first asyncio.run: get_config looks the project file up;
\* NoProjectFile is echoed and the process exits 1; otherwise _bootstrap is
\* called when --bootstrap was given, and _run_linters when not.
main ==
    /\ runState = "main"
    /\ LET r == get_configfile(project_files) IN
         /\ lookup' = Some(r)
         /\ IF CaughtNoProjectFile(r)
            THEN /\ exitStatus' = Some(1)
                 /\ runState' = "exit"
                 /\ UNCHANGED bphase
            ELSE IF bootstrapOpt
                 THEN /\ runState' = "bootstrap"
                      /\ bphase' = [t \in Tasks |-> "start"]
                      /\ UNCHANGED exitStatus
                 ELSE /\ runState' = "gather"
                      /\ UNCHANGED <<exitStatus, bphase>>
    /\ UNCHANGED <<items, yielded, _exit, raised>>
    /\ UNCHANGED <<bresult, battempts, breported>>
    /\ UNCHANGED <<project_files, bootstrapOpt>>
    /\ UNCHANGED <<execVars, bootVars, envVars, cfgVars>>
    /\ UNCHANGED <<cmdVars, resolveVars, pipeVars>>

InitLookup ==
    /\ linters = [t \in Tasks |-> CheckingLinter]
    /\ files = [f \in Files |-> InitialFile]
    /\ pc = [t \in Tasks |-> "start"]
    /\ lock = FreeLock
    /\ snapshot = [t \in Tasks |-> None]
    /\ proc = [t \in Tasks |-> NoProc]
    /\ outcome = [t \in Tasks |-> Pending]
    /\ detected = [t \in Tasks |-> None]
    /\ wrote = [t \in Tasks |-> {}]
    /\ runState = "main"
    /\ IterIdle
    /\ BootIdle
    /\ PhaseIdle
    /\ EnvIdle
    /\ CfgIdle
    /\ project_files \in UNION {[1..n -> BOOLEAN] : n \in 1..MaxDepth}
    /\ bootstrapOpt \in BOOLEAN
    /\ lookup = None
    /\ cmdLinter = None /\ cmdFiles = <<>> /\ cmd = None
    /\ argv_files = <<>> /\ found_files = None
    /\ toWrite = [t \in Tasks |-> 0]
    /\ pipe = [t \in Tasks |-> 0]

\* The linters of this run only read: their subprocesses write no file.
NextLookup ==
    \/ main
    \/ \E t \in Tasks : BootstrapStart(t)
    \/ \E t \in Tasks, rc \in HelpReturnCodes : BootstrapExit(t, rc)
    \/ Bootstrap
    \/ \E t \in Tasks : StartTask(t)
    \/ \E t \in Tasks : Resume(t)
    \/ \E t \in Tasks : Launch(t)
    \/ \E t \in Tasks, rc \in ReturnCodes : FinishWindow(t, rc)
    \/ RunLinters

\* main from its start, over every placement of the project file, with and
\* without --bootstrap.
SpecLookup == InitLookup /\ [][NextLookup]_vars

\* ------------------------------------------------- Linter.exec : cmd
OptionTokens == {"-a", "-b"}
CmdPaths == {"f.py", "g.py"}
SeqsUpTo(S, n) == UNION {[1..k -> S] : k \in 0..n}

\* The fields of a Linter that Linter.exec builds the command line from.
CmdLinters ==
    [executable : {"tool"},
     additional_options : SeqsUpTo(OptionTokens, MaxOpts),
     options : SeqsUpTo(OptionTokens, MaxOpts),
     pass_filenames : BOOLEAN]

\* "[file.as_posix() for file in files if self.pass_filenames]"
PassedFiles(l, fs) == IF l.pass_filenames THEN fs ELSE <<>>

\* Linter.exec : the two statements that build cmd.
BuildCommandOptionsFirst(l, fs) ==
    <<l.executable>> \o l.options \o l.additional_options \o PassedFiles(l, fs)
BuildCommand(l, fs) ==
    <<l.executable>> \o l.additional_options \o l.options \o PassedFiles(l, fs)

BuildCmd ==
    /\ cmdLinter # None
    /\ cmd = None
    /\ cmd' = Some(BuildCommand(cmdLinter[1], cmdFiles))
    /\ UNCHANGED <<cmdLinter, cmdFiles>>
    /\ UNCHANGED <<execVars, iterVars, bootVars, phaseVars, envVars, cfgVars>>
    /\ UNCHANGED <<mainVars, resolveVars, pipeVars>>

InitCmd ==
    /\ ExecIdle
    /\ IterIdle
    /\ BootIdle
    /\ PhaseIdle
    /\ EnvIdle
    /\ CfgIdle
    /\ runState = "off"
    /\ project_files = <<>> /\ bootstrapOpt = FALSE /\ lookup = None
    /\ cmdLinter \in {Some(l) : l \in CmdLinters}
    /\ cmdFiles \in SeqsUpTo(CmdPaths, MaxOpts)
    /\ cmd = None
    /\ argv_files = <<>> /\ found_files = None
    /\ toWrite = [t \in Tasks |-> 0]
    /\ pipe = [t \in Tasks |-> 0]

NextCmd == BuildCmd

\* The command line of Linter.exec, over every descriptor and file list of
\* the domain.
SpecCmd == InitCmd /\ [][NextCmd]_vars

\* ------------------------------------------------------------ _resolve_files
\* The paths that can be given to main: a directory, a file inside it, a
\* directory inside it that holds nothing, a file beside it, and a path that
\* does not exist.
ArgPaths == {"src", "src/a.py", "src/pkg.py", "b.py", "gone.py"}

\* Path.is_dir
is_dir(path) == path \in {"src", "src/pkg.py"}
\* Path.is_file
is_file(path) == path \in {"src/a.py", "src/notes.txt", "b.py"}
\* Path.rglob("*") : everything below the directory, files and directories.
rglob(path) ==
    IF path = "src" THEN <<"src/a.py", "src/notes.txt", "src/pkg.py">> ELSE <<>>
\* config.include.search(file_.as_posix()), for the default pattern \.py$
include_search(path) == path \in {"src/a.py", "src/pkg.py", "b.py", "gone.py"}

\* "part.rglob("*") if part.is_dir() else [part]"
Expand(part) == IF is_dir(part) THEN rglob(part) ELSE <<part>>

\* The nested comprehension of _resolve_files from the i-th argument on.
RECURSIVE Candidates(_, _)
Candidates(args, i) ==
    IF i > Len(args) THEN <<>> ELSE Expand(args[i]) \o Candidates(args, i + 1)

Selected(path) == include_search(path) /\ is_file(path)

\* _resolve_files : found_files
resolve_files(args) == SelectSeq(Candidates(args, 1), Selected)

\* _resolve_files : with nothing found the process exits 0.
\* _resolve_files : "if not found_files:"
NoFilesToLintNever(found) == FALSE

NoFilesToLint(found) == found = <<>>

ResolveFiles ==
    /\ runState = "resolve"
    /\ found_files' = Some(resolve_files(argv_files))
    /\ IF NoFilesToLint(resolve_files(argv_files))
       THEN /\ exitStatus' = Some(0)
            /\ runState' = "exit"
       ELSE /\ runState' = "resolved"
            /\ UNCHANGED exitStatus
    /\ UNCHANGED <<items, yielded, _exit, raised>>
    /\ UNCHANGED argv_files
    /\ UNCHANGED <<execVars, bootVars, phaseVars, envVars, cfgVars>>
    /\ UNCHANGED <<mainVars, cmdVars, pipeVars>>

InitResolve ==
    /\ ExecIdle
    /\ IterIdle
    /\ BootIdle
    /\ PhaseIdle
    /\ EnvIdle
    /\ CfgIdle
    /\ runState = "resolve"
    /\ project_files = <<>> /\ bootstrapOpt = FALSE /\ lookup = None
    /\ cmdLinter = None /\ cmdFiles = <<>> /\ cmd = None
    /\ argv_files \in SeqsUpTo(ArgPaths, MaxArgs)
    /\ found_files = None
    /\ toWrite = [t \in Tasks |-> 0]
    /\ pipe = [t \in Tasks |-> 0]

NextResolve == ResolveFiles

\* _resolve_files over every list of up to MaxArgs path arguments.
SpecResolve == InitResolve /\ [][NextResolve]_vars

\* ------------------------------------------------------------ _run_linters
\* _run_linters : with the file set resolved and not empty,
\* "asyncio.run(_exec_linters(config.linters, found_files))" creates the
\* execution tasks.
ExecLinters ==
    /\ runState = "resolved"
    /\ runState' = "gather"
    /\ UNCHANGED <<items, yielded, _exit, raised, exitStatus>>
    /\ UNCHANGED <<execVars, bootVars, phaseVars, envVars, cfgVars>>
    /\ UNCHANGED extraVars

\* _run_linters from its first line, over every list of up to MaxArgs path
\* arguments; the last linter is the one that is not passed file names.
InitRun ==
    /\ linters = [t \in Tasks |-> CheckingLinter]
    /\ files = [f \in Files |-> InitialFile]
    /\ pc = [t \in Tasks |-> "start"]
    /\ lock = FreeLock
    /\ snapshot = [t \in Tasks |-> None]
    /\ proc = [t \in Tasks |-> NoProc]
    /\ outcome = [t \in Tasks |-> Pending]
    /\ detected = [t \in Tasks |-> None]
    /\ wrote = [t \in Tasks |-> {}]
    /\ runState = "resolve"
    /\ IterIdle
    /\ BootIdle
    /\ PhaseIdle
    /\ EnvIdle
    /\ CfgIdle
    /\ project_files = <<>> /\ bootstrapOpt = FALSE /\ lookup = None
    /\ cmdLinter = None /\ cmdFiles = <<>> /\ cmd = None
    /\ argv_files \in SeqsUpTo(ArgPaths, MaxArgs)
    /\ found_files = None
    /\ toWrite = [t \in Tasks |-> 0]
    /\ pipe = [t \in Tasks |-> 0]

NextRun ==
    \/ ResolveFiles
    \/ ExecLinters
    \/ \E t \in Tasks : StartTask(t)
    \/ \E t \in Tasks : Resume(t)
    \/ \E t \in Tasks : Launch(t)
    \/ \E t \in Tasks, rc \in ReturnCodes : FinishWindow(t, rc)
    \/ RunLinters

SpecRun == InitRun /\ [][NextRun]_vars

\* ------------------------------------------------- run_proc and its pipes
\* The most a subprocess writes here: one unit more than a pipe holds.
MaxOutput == PipeCapacity + 1

\* The subprocess of task t writes one unit of output to its pipe.  The
\* pipe was created with stdout=PIPE, stderr=PIPE and nothing reads it while
\* run_proc waits, so the write blocks when the pipe is full.
ProcOutput(t) ==
    /\ proc[t] = ActiveProc
    /\ toWrite[t] > 0
    /\ pipe[t] < PipeCapacity
    /\ toWrite' = [toWrite EXCEPT ![t] = @ - 1]
    /\ pipe' = [pipe EXCEPT ![t] = @ + 1]
    /\ UNCHANGED <<execVars, iterVars, bootVars, phaseVars, envVars, cfgVars>>
    /\ UNCHANGED <<mainVars, cmdVars, resolveVars>>

InitPipe ==
    /\ linters = [t \in Tasks |-> CheckingLinter]
    /\ files = [f \in Files |-> InitialFile]
    /\ pc = [t \in Tasks |-> "start"]
    /\ lock = FreeLock
    /\ snapshot = [t \in Tasks |-> None]
    /\ proc = [t \in Tasks |-> NoProc]
    /\ outcome = [t \in Tasks |-> Pending]
    /\ detected = [t \in Tasks |-> None]
    /\ wrote = [t \in Tasks |-> {}]
    /\ runState = "gather"
    /\ IterIdle
    /\ BootIdle
    /\ PhaseIdle
    /\ EnvIdle
    /\ CfgIdle
    /\ project_files = <<>> /\ bootstrapOpt = FALSE /\ lookup = None
    /\ cmdLinter = None /\ cmdFiles = <<>> /\ cmd = None
    /\ argv_files = <<>> /\ found_files = None
    /\ toWrite \in [Tasks -> 0..MaxOutput]
    /\ pipe = [t \in Tasks |-> 0]

NextPipe ==
    \/ \E t \in Tasks : StartTask(t)
    \/ \E t \in Tasks : Resume(t)
    \/ \E t \in Tasks : Launch(t)
    \/ \E t \in Tasks : ProcOutput(t)
    \/ \E t \in Tasks, rc \in ReturnCodes : FinishWindow(t, rc)
    \/ RunLinters

SpecPipe == InitPipe /\ [][NextPipe]_vars

\* The event loop runs every task that can run, and the operating system
\* runs every subprocess that is not blocked.
FairSpecPipe ==
    /\ SpecPipe
    /\ \A t \in Tasks : WF_vars(TaskStep(t))
    /\ \A t \in Tasks : WF_vars(ProcOutput(t))
    /\ WF_vars(RunLinters)

\* =============================================================== claims
InWindow(t) == pc[t] \in {"launch", "running"}
ProcActive(t) == proc[t] = ActiveProc
Finished(t) == pc[t] = "done"
IsResult(x) == x.kind = "result"
IsExc(x) == x.kind = "exc"

\* C1: in every reachable state of an execution run at most one task is inside
\* its protected window (snapshot, subprocess, diff) and at most one
\* subprocess started by Linter.exec is active.
C1_WindowsNeverOverlap ==
    /\ \A t, u \in Tasks : (InWindow(t) /\ InWindow(u)) => t = u
    /\ \A t, u \in Tasks : (ProcActive(t) /\ ProcActive(u)) => t = u

\* A subprocess is active while another enabled linter's task waits for the lock.
C1_Witness ==
    \E t, u \in Tasks : t # u /\ ProcActive(t) /\ pc[u] = "waiting"

\* C2: when the detector reports a modified file for a linter with
\* mutable=false, the task's outcome is a captured exception, never a
\* LintExecResult, and the run ends with a non-zero status; every
\* LintExecResult of a non-mutable linter has an empty modified_files.
C2_UnexpectedMutationIsError ==
    /\ \A t \in Tasks :
         (~linters[t].mutable /\ detected[t] # None /\ detected[t][1] # <<>>)
         => /\ IsExc(outcome[t])
            /\ exitStatus # None => (exitStatus = Some(1) /\ raised # None)
    /\ \A t \in Tasks :
         (IsResult(outcome[t]) /\ ~linters[t].mutable)
         => outcome[t].modified_files = <<>>

\* The run has ended after a non-mutable linter was seen to modify a file.
C2_Witness ==
    /\ exitStatus = Some(1)
    /\ \E t \in Tasks :
         /\ ~linters[t].mutable
         /\ detected[t] # None /\ detected[t][1] # <<>>
         /\ outcome[t] = Raised(t, "assert")

\* C3: the modified-file list computed for a linter holds only files its own
\* subprocess wrote during its window; a linter whose tool only reads reports
\* no modification and gets no unexpected-mutation error, whatever a
\* concurrently dispatched mutable linter writes.
C3_OnlyOwnWindowChanges ==
    \A t \in Tasks :
        /\ detected[t] # None =>
             \A i \in DOMAIN detected[t][1] : detected[t][1][i] \in wrote[t]
        /\ ~linters[t].writes =>
             /\ detected[t] \in {None, Some(<<>>)}
             /\ outcome[t] # Raised(t, "assert")

\* A mutable linter rewrote a file, and a non-mutable linter that only reads
\* it has delivered a result without modifications.
C3_Witness ==
    \E w, r \in Tasks :
        /\ w # r
        /\ linters[w].mutable /\ IsResult(outcome[w])
        /\ outcome[w].modified_files # <<>>
        /\ ~linters[r].mutable /\ ~linters[r].writes
        /\ IsResult(outcome[r]) /\ outcome[r].modified_files = <<>>

\* C4: the gathered sequence has one position per configured linter, and the
\* position of every linter with run=true holds one LintExecResult or one
\* captured exception of that linter, never None.
C4_ExactlyOneOutcome ==
    /\ \A t \in Tasks :
         /\ Finished(t) <=> outcome[t] # Pending
         /\ (Finished(t) /\ linters[t].run) =>
              /\ outcome[t].kind \in {"result", "exc"}
              /\ outcome[t].linter = t
    /\ runState \in {"gathered", "exit"} =>
         /\ Len(items) = NumLinters
         /\ \A t \in Tasks : linters[t].run =>
              /\ items[t].kind \in {"result", "exc"}
              /\ items[t].linter = t

\* gather returned one result and one captured exception of enabled linters.
C4_Witness ==
    /\ runState = "exit"
    /\ \E t, u \in Tasks :
         /\ linters[t].run /\ linters[u].run
         /\ IsResult(items[t]) /\ IsExc(items[u])

\* C5: a failed task does not keep the lock (with no task in its window the
\* lock is free, so the next task can enter); while a task is unfinished,
\* whatever failed before, some task can take its next step; the outcomes are
\* aggregated, and MultipleExceptions raised, only after every task finished.
C5_FailureIsIsolated ==
    /\ (\A t \in Tasks : ~InWindow(t)) => ~lock.locked
    /\ (runState = "gather" /\ \E t \in Tasks : ~Finished(t))
         => \E t \in Tasks : ENABLED TaskStep(t)
    /\ runState # "gather" => \A t \in Tasks : Finished(t)
    /\ raised # None => \A t \in Tasks : Finished(t)

\* One task failed to launch its subprocess, its sibling ran and delivered a
\* result, and the failure was raised after both.
C5_Witness ==
    \E t, u \in Tasks :
        /\ t # u
        /\ outcome[t] = Raised(t, "launch")
        /\ IsResult(outcome[u])
        /\ raised # None

\* C6: run over any list of results, exceptions and None, iter_returns yields
\* exactly the results, in input order, and raises MultipleExceptions exactly
\* when the list holds an exception, carrying all of them in input order.
C6_IterReturns ==
    runState = "exit" =>
        /\ yielded = SelectSeq(items, IsResult)
        /\ raised # None <=> \E i \in DOMAIN items : IsExc(items[i])
        /\ raised # None => raised[1] = SelectSeq(items, IsExc)

\* A result between two exceptions was yielded, and both were raised.
C6_Witness ==
    /\ runState = "exit"
    /\ Len(items) = 3
    /\ IsExc(items[1]) /\ IsResult(items[2]) /\ IsExc(items[3])
    /\ items[1] # items[3]
    /\ yielded = <<items[2]>>
    /\ raised = Some(<<items[1], items[3]>>)

\* C7: the run ends with status 0 exactly when every enabled linter
\* delivered a result with return code 0 and no modified file; otherwise it
\* ends with status 1.
AllClean ==
    \A t \in Tasks : linters[t].run =>
        /\ IsResult(outcome[t])
        /\ outcome[t].returncode = Some(0)
        /\ outcome[t].modified_files = <<>>

C7_ExitDecision ==
    exitStatus # None =>
        /\ exitStatus \in {Some(0), Some(1)}
        /\ exitStatus = Some(0) <=> AllClean

\* The run failed only because a mutable linter modified a file.
C7_Witness ==
    /\ exitStatus = Some(1)
    /\ raised = None
    /\ \A t \in Tasks : linters[t].run =>
         IsResult(outcome[t]) /\ outcome[t].returncode = Some(0)
    /\ \E t \in Tasks :
         linters[t].mutable /\ IsResult(outcome[t]) /\ outcome[t].modified_files # <<>>

\* C8: under a fair event loop and with every subprocess exiting, every task
\* that waits for the lock finishes, and the run ends.
C8_EveryTaskFinishes ==
    /\ \A t \in Tasks : (pc[t] = "waiting") ~> Finished(t)
    /\ <>(exitStatus # None)

\* A task is queued behind a holder whose window has just ended in a failure.
C8_Witness ==
    \E t, u \in Tasks :
        /\ t # u
        /\ IsExc(outcome[t])
        /\ pc[u] = "waiting"
        /\ lock.waiters = <<u>>
        /\ ~lock.locked

\* C9 as stated: one call makes at most 3 attempts in total.
C9_AtMostThreeAttempts == Len(attempts) <= 3

\* C9 amended: one call makes at most 4 attempts (the first one and at most
\* 3 retries); after four failing attempts nothing more is invoked.
C9_AtMostFourAttempts ==
    /\ Len(attempts) <= 4
    /\ Len(attempts) = 4 => bpc \in {"while", "returned"}

\* Four attempts failed and the bootstrap returned.
C9_Witness ==
    /\ Len(attempts) = 4
    /\ \A i \in 1..4 : Truthy(attempts[i].returncode)
    /\ bpc = "returned"

\* C10: every attempt but the last returned a non-zero return code, a new
\* attempt starts only after such a result, and the call returns the result
\* of the last attempt made (also when every attempt failed).
C10_RetryOnlyAfterFailure ==
    /\ \A i \in 1..(Len(attempts) - 1) : Truthy(attempts[i].returncode)
    /\ (bpc \in {"call", "proc"} /\ attempts # <<>>) =>
         Truthy(attempts[Len(attempts)].returncode)
    /\ bpc = "returned" <=> returned # None
    /\ bpc = "returned" =>
         /\ attempts # <<>>
         /\ returned = Some(attempts[Len(attempts)])

\* Two failing attempts, then a successful one, which is returned.
C10_Witness ==
    /\ Len(attempts) = 3
    /\ Truthy(attempts[1].returncode) /\ Truthy(attempts[2].returncode)
    /\ attempts[3] = LintBootstrapResult(0)
    /\ returned = Some(LintBootstrapResult(0))

\* C11 as stated: at the exit of a window, a watched file that still exists is
\* reported modified exactly when its timestamp differs from the snapshot or
\* its digest differs from the snapshot (either difference alone is enough).
C11_ModifiedIffEitherDiffers ==
    \A t \in Tasks :
        (pc[t] = "running" /\ CanSnapshot(files)) =>
            LET snap == snapshot[t][1]
                mod == modified_paths(snap, files)
            IN \A f \in Files :
                   (\E i \in DOMAIN mod : mod[i] = f)
                   <=> (files[f].mtime # snap[f].mtime
                        \/ files[f].digest # snap[f].digest)

\* C12 as stated: no window fails because a watched file is missing, neither
\* at entry (the snapshot) nor at exit (the diff); a file that existed at
\* entry and is missing at exit is listed as modified.
C12_MissingFilesHandled ==
    \A t \in Tasks :
        /\ outcome[t] # Raised(t, "snapshot")
        /\ outcome[t] # Raised(t, "diff")
        /\ (Finished(t) /\ linters[t].run /\ \E f \in wrote[t] : ~files[f].exists)
             => (detected[t] # None /\ detected[t][1] # <<>>)

\* C13: a window whose operation changed no file yields an empty
\* modified-file list: when no subprocess was started, and when the
\* subprocess wrote nothing; also for a window that comes second, after
\* another window over the same files.
C13_EmptyOperationEmptyList ==
    \A t \in Tasks :
        /\ outcome[t] = Raised(t, "launch") => detected[t] = Some(<<>>)
        /\ (wrote[t] = {} /\ detected[t] # None) => detected[t] = Some(<<>>)
        /\ (wrote[t] = {} /\ IsResult(outcome[t])) => outcome[t].modified_files = <<>>
        /\ wrote[t] = {} => outcome[t] # Raised(t, "assert")

\* Two windows over the same files, the first around a subprocess that
\* rewrote a file, the second around one that wrote nothing: the second
\* list is empty.
C13_Witness ==
    \E t, u \in Tasks :
        /\ t # u
        /\ detected[t] # None /\ detected[t][1] # <<>>
        /\ Finished(u) /\ linters[u].run /\ wrote[u] = {}
        /\ detected[u] = Some(<<>>)
        /\ IsResult(outcome[u])

\* C14: a call of Linter.bootstrap that does not find the executable returns
\* at once, from the call itself and with no health check started, a result
\* without path and without return code; a call that found it returns, when
\* the health check exits, a result with the path and that return code;
\* what PyRightLinter.bootstrap returns is always such a result.
C14_BootstrapResult(res) ==
    \/ res.which = None /\ res.returncode = None
    \/ res.which # None /\ res.returncode \in {Some(rc) : rc \in HelpReturnCodes}

C14_MissingOrBrokenIsReturned ==
    /\ [](\A i \in DOMAIN attempts : C14_BootstrapResult(attempts[i]))
    /\ [](bpc = "returned" => (returned # None /\ C14_BootstrapResult(returned[1])))
    /\ [][attempts' # attempts =>
            LET res == attempts'[Len(attempts')] IN
            /\ attempts' = Append(attempts, res)
            /\ res.which = None => (bpc = "call" /\ res.returncode = None)
            /\ res.which # None => (bpc = "proc" /\ res.returncode # None)]_vars

\* A missing executable was returned as a result after one call.
C14_Witness ==
    /\ bpc = "returned"
    /\ attempts = <<[which |-> None, returncode |-> None]>>
    /\ returned = Some([which |-> None, returncode |-> None])

\* C15: the execution phase does not start before the bootstrap phase is
\* over; when a reported bootstrap result is missing (no path) or broken
\* (non-zero return code) the run has ended with status 1, every enabled
\* linter's result or exception was gone through first, and no execution
\* task was started, so no linter subprocess was launched.
C15_ExecNotStarted ==
    \A t \in Tasks :
        pc[t] = "start" /\ proc[t] = NoProc /\ outcome[t] = Pending /\ ~lock.locked

C15_Enabled == {t \in Tasks : linters[t].run}

C15_BootstrapFailureEndsRun ==
    /\ runState = "bootstrap" => (C15_ExecNotStarted /\ breported = <<>>)
    /\ (\E i \in DOMAIN breported :
            breported[i].which = None \/ Truthy(breported[i].returncode))
         => /\ runState = "exit"
            /\ exitStatus = Some(1)
            /\ C15_ExecNotStarted
            /\ Len(breported) + (IF raised = None THEN 0 ELSE Len(raised[1]))
                 = Cardinality(C15_Enabled)

\* One linter was reported missing, another broken, and the run ended.
C15_Witness ==
    /\ exitStatus = Some(1)
    /\ raised = None
    /\ \E i, j \in DOMAIN breported :
         /\ breported[i].which = None
         /\ breported[j].which # None /\ Truthy(breported[j].returncode)

\* C16: a linter with run=false never starts a health check, never takes or
\* waits for the lock, never has a window or a subprocess, its slots hold
\* None, and nothing of it is reported, yielded or raised.
C16_Mentions(seq, t) == \E i \in DOMAIN seq : seq[i].linter = t

C16_DisabledIsSkipped ==
    \A t \in Tasks : ~linters[t].run =>
        /\ bphase[t] \in {"start", "done"}
        /\ battempts[t] = 0
        /\ bresult[t] \in {Pending, NoneItem}
        /\ pc[t] \in {"start", "done"}
        /\ proc[t] = NoProc
        /\ snapshot[t] = None /\ detected[t] = None /\ wrote[t] = {}
        /\ ~\E i \in DOMAIN lock.waiters : lock.waiters[i] = t
        /\ outcome[t] \in {Pending, NoneItem}
        /\ ~C16_Mentions(breported, t)
        /\ ~C16_Mentions(yielded, t)
        /\ raised # None => ~C16_Mentions(raised[1], t)

\* The run went through both phases with one linter disabled and another
\* delivering a result.
C16_Witness ==
    /\ runState = "exit"
    /\ \E t, u \in Tasks :
         /\ ~linters[t].run /\ outcome[t] = NoneItem /\ bphase[t] = "done"
         /\ linters[u].run /\ IsResult(outcome[u]) /\ C16_Mentions(breported, u)

\* C18: during the bootstrap phase the lock is never taken or waited for,
\* and a bootstrap task that has not started can start whatever the other
\* tasks are doing, also while their health checks are active.
C18_BootstrapNotSerialized ==
    runState = "bootstrap" =>
        /\ lock = FreeLock
        /\ \A u \in Tasks : bphase[u] = "start" => ENABLED BootstrapStart(u)

\* The health checks of two linters are active at the same time.
C18_Witness ==
    \E t, u \in Tasks :
        /\ t # u
        /\ linters[t].run /\ linters[u].run
        /\ bphase[t] = "proc" /\ bphase[u] = "proc"

\* C19: when a linter's subprocess exits with a non-zero return code and the
\* window saw no forbidden modification (no modified file, or a mutable
\* linter), the task's outcome is a LintExecResult of that linter with
\* exactly that return code; a linter that delivered a result is not among
\* the raised exceptions.
C19_NonZeroExitIsResult ==
    /\ [][\A t \in Tasks, rc \in ReturnCodes :
            (/\ FinishWindow(t, rc)
             /\ rc # 0
             /\ CanSnapshot(files)
             /\ (modified_paths(snapshot[t][1], files) = <<>> \/ linters[t].mutable))
            => /\ outcome'[t].kind = "result"
               /\ outcome'[t].linter = t
               /\ outcome'[t].returncode = Some(rc)]_vars
    /\ [](\A t \in Tasks :
            (IsResult(outcome[t]) /\ raised # None) =>
                ~\E i \in DOMAIN raised[1] : raised[1][i].linter = t)

\* A non-mutable linter exited non-zero without touching a file: the run
\* ended with status 1 and nothing was raised.
C19_Witness ==
    /\ exitStatus = Some(1)
    /\ raised = None
    /\ \E t \in Tasks :
         /\ ~linters[t].mutable
         /\ IsResult(outcome[t])
         /\ Truthy(outcome[t].returncode)
         /\ outcome[t].modified_files = <<>>

\* C17: inside the environ scope every named key has the given value and
\* every other key is as at entry; once the scope is left, by a return or by
\* an exception, the environment equals the environment at entry.
C17_EnvironScoped ==
    /\ epc = "inside" =>
         \A k \in EnvKeys :
             env[k] = IF k \in DOMAIN envArgs THEN Some(envArgs[k]) ELSE envAtEntry[k]
    /\ epc \in {"returned", "raised"} => env = envAtEntry

\* The scope was left through an exception after it had set a key that was
\* unset at entry and changed one that had another value.
C17_Witness ==
    /\ epc = "raised"
    /\ \E k, j \in DOMAIN envArgs :
         /\ envAtEntry[k] = None
         /\ envAtEntry[j] # None /\ envAtEntry[j] # Some(envArgs[j])
    /\ env = envAtEntry

\* C20: get_config returns six descriptors, the i-th for the i-th tool of the
\* registry; each field of each has the value the override entry of that
\* tool's name gives it, and the default's value when that entry does not
\* name the field or does not exist (entries of other names change
\* nothing); the registry is as it was.
C20_Default(i) == DEFAULT_LINTERS[i].linter

C20_Named(i, fld) ==
    /\ DEFAULT_LINTERS[i].name \in DOMAIN lint_config
    /\ fld \in DOMAIN lint_config[DEFAULT_LINTERS[i].name]

C20_ConfigResolution ==
    /\ registry = DEFAULT_LINTERS
    /\ Len(registry) = 6
    /\ config # <<>> =>
         /\ Len(config) = 6
         /\ \A i \in 1..6 :
              /\ DOMAIN config[i] = DOMAIN C20_Default(i)
              /\ \A fld \in DOMAIN C20_Default(i) :
                   config[i][fld] =
                       IF C20_Named(i, fld)
                       THEN lint_config[DEFAULT_LINTERS[i].name][fld]
                       ELSE C20_Default(i)[fld]

\* black is disabled and made non-mutable by its entry, an entry for a name
\* outside the registry is there too, and get_config has returned.
C20_Witness ==
    /\ config # <<>>
    /\ DOMAIN lint_config = {"black", "mypy"}
    /\ lint_config["black"] = [mutable |-> FALSE, run |-> FALSE]
    /\ lint_config["mypy"] = [run |-> FALSE]
    /\ config[2] = [executable |-> "black", mutable |-> FALSE, run |-> FALSE,
                    pass_filenames |-> TRUE, class |-> "Linter"]
    /\ config[5] = C20_Default(5)

\* C22 as stated: the exception captured for a non-mutable linter that changed
\* files names the linter and carries the list of the changed paths and the
\* captured stdout and stderr of the subprocess.
C22_FailureCarriesPathsAndOutput ==
    \A t \in Tasks :
        (IsExc(outcome[t]) /\ outcome[t].err = "assert") =>
            /\ outcome[t].linter = t
            /\ "modified_files" \in DOMAIN outcome[t]
            /\ "stdout" \in DOMAIN outcome[t]
            /\ "stderr" \in DOMAIN outcome[t]

\* C25: the lock is held exactly when some task is inside its window, and
\* then by one task only; a task that left its window by any path (result,
\* snapshot failure, launch failure, failed diff, failed assertion) holds
\* nothing; when the run has finished the lock is free and nobody waits.
C25_LockHeldExactlyInWindow ==
    /\ lock.locked <=> \E t \in Tasks : InWindow(t)
    /\ \A t, u \in Tasks : (InWindow(t) /\ InWindow(u)) => t = u
    /\ \A i \in DOMAIN lock.waiters : pc[lock.waiters[i]] = "waiting"
    /\ (\A t \in Tasks : Finished(t)) => lock = FreeLock
    /\ runState = "exit" => lock = FreeLock

\* The run has finished after one window ended in a failed assertion and
\* another in a launch failure.
C25_Witness ==
    /\ runState = "exit"
    /\ lock = FreeLock
    /\ \E t, u \in Tasks :
         /\ outcome[t] = Raised(t, "assert")
         /\ outcome[u] = Raised(u, "launch")

\* C21: when no search path holds a project file, main ends with status 1 and
\* a NoProjectFile naming every searched path, and nothing was dispatched:
\* no bootstrap task and no execution task ever started, no health check and
\* no linter subprocess was launched; NoProjectFile arises in no other case.
C21_NothingDispatched ==
    /\ \A t \in Tasks :
         /\ bphase[t] = "idle" /\ battempts[t] = 0 /\ bresult[t] = Pending
         /\ pc[t] = "start" /\ proc[t] = NoProc /\ outcome[t] = Pending
    /\ lock = FreeLock

C21_NoProjectFileEndsRun ==
    /\ (\A i \in DOMAIN project_files : ~project_files[i]) =>
         /\ runState \in {"main", "exit"}
         /\ C21_NothingDispatched
         /\ runState = "exit" =>
              /\ exitStatus = Some(1)
              /\ lookup # None
              /\ lookup[1].kind = "NoProjectFile"
              /\ lookup[1].search_paths = [k \in DOMAIN project_files |-> k]
    /\ (lookup # None /\ lookup[1].kind = "NoProjectFile") =>
         \A i \in DOMAIN project_files : ~project_files[i]

\* The working directory and its parent were searched, neither holds a
\* project file, --bootstrap was given, and the run has ended.
C21_Witness ==
    /\ project_files = <<FALSE, FALSE>>
    /\ bootstrapOpt
    /\ runState = "exit"
    /\ exitStatus = Some(1)
    /\ lookup = Some([kind |-> "NoProjectFile", search_paths |-> <<1, 2>>])

\* C23: the command line is the executable, then the additional options in
\* order, then the options in order, then every file in file-set order when
\* pass_filenames is true, and no file when it is false.
C23_CommandLine ==
    cmd # None =>
        LET c == cmd[1]
            l == cmdLinter[1]
            a == Len(l.additional_options)
            o == Len(l.options)
            n == IF l.pass_filenames THEN Len(cmdFiles) ELSE 0
        IN /\ Len(c) = 1 + a + o + n
           /\ c[1] = l.executable
           /\ \A i \in 1..a : c[1 + i] = l.additional_options[i]
           /\ \A i \in 1..o : c[1 + a + i] = l.options[i]
           /\ \A i \in 1..n : c[1 + a + o + i] = cmdFiles[i]

\* A command line was built from different additional and fixed options for
\* a linter that takes no file names, with two files given.
C23_Witness ==
    /\ cmd # None
    /\ cmdLinter[1].additional_options = <<"-a">>
    /\ cmdLinter[1].options = <<"-b", "-a">>
    /\ ~cmdLinter[1].pass_filenames
    /\ cmdFiles = <<"g.py", "f.py">>
    /\ cmd[1] = <<"tool", "-a", "-b", "-a">>

\* C24 as stated: the resolved file set holds each file at most once, holds
\* only existing regular files matching the include pattern, and lists them
\* in the order of the arguments that select them.
C24_Covers(arg, path) ==
    \/ path = arg
    \/ \E i \in DOMAIN Expand(arg) : Expand(arg)[i] = path

C24_FirstArg(path) ==
    CHOOSE i \in DOMAIN argv_files :
        /\ C24_Covers(argv_files[i], path)
        /\ \A j \in 1..(i - 1) : ~C24_Covers(argv_files[j], path)

C24_FileSetDeduplicated ==
    found_files # None =>
        LET found == found_files[1] IN
        /\ \A i, j \in DOMAIN found : found[i] = found[j] => i = j
        /\ \A i \in DOMAIN found :
             /\ is_file(found[i]) /\ include_search(found[i])
             /\ \E k \in DOMAIN argv_files : C24_Covers(argv_files[k], found[i])
        /\ \A i, j \in DOMAIN found :
             i < j => C24_FirstArg(found[i]) <= C24_FirstArg(found[j])

\* C26: the overrides pyright_env puts in the process environment are in
\* effect only for the PyRightLinter's own subprocess: at every step that
\* launches the bootstrap or the execution subprocess of another linter, the
\* process environment holds neither override.
C26_HoldsOverrides ==
    \/ env[PYRIGHT_PYTHON_GLOBAL_NODE] = Some("off")
    \/ env[PYRIGHT_PYTHON_ENV_DIR] \in {Some("default"), Some("resolved")}

C26_Launches(t) ==
    \/ proc[t] # ActiveProc /\ proc'[t] = ActiveProc
    \/ bphase[t] # "proc" /\ bphase'[t] = "proc"

C26_OverridesOnlyForPyright ==
    [][\A t \in Tasks :
          (t # PyRightTask /\ C26_Launches(t)) => ~C26_HoldsOverrides]_vars

\* C28: when the bootstrap phase has completed and when the execution phase
\* has completed, whether the tasks returned results or raised, the process
\* environment is the environment the phase started with.
C28_BootstrapOver ==
    /\ \A t \in Tasks : bphase[t] = "done"
    /\ \A t \in Tasks : pc[t] = "start"

C28_ExecOver == \A t \in Tasks : pc[t] = "done"

C28_EnvironmentRestored ==
    (C28_BootstrapOver \/ C28_ExecOver)
        => /\ epc # "inside"
           /\ env \in ProcessEnvs
           /\ epc # "off" => env = envAtEntry

\* The PyRightLinter passed its bootstrap and its exec raised inside the
\* scope: the run is over and the environment is the one it started with.
C28_Witness ==
    /\ runState = "exit"
    /\ epc = "raised"
    /\ IsExc(outcome[PyRightTask])
    /\ Len(breported) > 0
    /\ env[PYRIGHT_PYTHON_ENV_DIR] = Some("a")
    /\ env[PYRIGHT_PYTHON_GLOBAL_NODE] = None


\* C27: an execution task finishes whatever amount of output its subprocess
\* writes: once the subprocess runs, the wait of run_proc, made while the
\* lock is held, returns and the task ends.
C27_ExecFinishesForEveryOutput ==
    \A t \in Tasks : (proc[t] = ActiveProc) ~> Finished(t)


\* C29: what a bootstrap run and an execution run report is in the order of
\* the configured linters, whatever the order in which the tasks took the
\* lock or finished: the gathered list has linter i in place i, and the
\* results and the exceptions taken from it have increasing linter indices.
C29_Ascending(seq) ==
    \A i, j \in DOMAIN seq : i < j => seq[i].linter < seq[j].linter

C29_OutcomesInLinterOrder ==
    /\ \A i \in DOMAIN items :
          items[i].kind \in {"result", "exc"} => items[i].linter = i
    /\ C29_Ascending(yielded)
    /\ C29_Ascending(breported)
    /\ raised # None => C29_Ascending(raised[1])

\* The second linter took the lock first and deleted the watched file, then
\* failed to compare it; the first linter failed to snapshot it afterwards.
\* The first linter's exception is still reported first.
C29_Witness ==
    /\ Len(breported) = NumLinters
    /\ raised = Some(<<Raised(1, "snapshot"), Raised(NumLinters, "diff")>>)


\* C30: every bootstrap result, of the plain and of the retrying bootstrap,
\* has no located path exactly when it has no return code; so no reported
\* result is both broken (non-zero return code) and missing (no path).
C30_BootResults ==
    {bresult[t] : t \in {u \in Tasks : bresult[u].kind = "boot"}}
        \cup {breported[i] : i \in DOMAIN breported}

C30_Broken(res) == Truthy(res.returncode)

C30_Missing(res) == res.which = None

C30_PathAbsentIffCodeAbsent ==
    \A res \in C30_BootResults :
        /\ (res.which = None) <=> (res.returncode = None)
        /\ ~(C30_Broken(res) /\ C30_Missing(res))

\* The report of a run whose first linter is missing and whose retrying
\* linter is broken after all its retries.
C30_Witness ==
    /\ runState = "exit"
    /\ breported = <<BootItem(1, MissingResult),
                     BootItem(PyRightTask, LintBootstrapResult(1))>>
    /\ C30_Missing(breported[1]) /\ ~C30_Broken(breported[1])
    /\ C30_Broken(breported[2]) /\ ~C30_Missing(breported[2])


\* C31: when --bootstrap is given, no execution task is dispatched before
\* every bootstrap task has finished and the results have been evaluated
\* and found good; a health-check subprocess and an execution subprocess
\* are never active together.
C31_ExecBegun == \E u \in Tasks : pc[u] # "start" \/ proc[u] = ActiveProc

C31_BootstrapBeforeExec ==
    /\ \A t, u \in Tasks : ~(bphase[t] = "proc" /\ proc[u] = ActiveProc)
    /\ (bootstrapOpt /\ C31_ExecBegun) =>
          /\ \A t \in Tasks : bphase[t] = "done"
          /\ runState \notin {"main", "bootstrap"}
          /\ raised = None \/ runState = "exit"
          /\ Len(breported) = Cardinality({t \in Tasks : linters[t].run})
          /\ \A i \in DOMAIN breported :
                breported[i].which # None /\ ~Truthy(breported[i].returncode)

\* Bootstrap was requested and passed for every linter, and the first
\* linter's execution subprocess runs.
C31_Witness ==
    /\ bootstrapOpt
    /\ Len(breported) = NumLinters
    /\ proc[1] = ActiveProc
    /\ \A t \in Tasks : bphase[t] = "done"


\* C32: when no path argument is given, or none resolves to an existing file
\* matching the include pattern, _run_linters ends the run with status 0 and
\* no execution task is dispatched and no linter subprocess launched, not
\* even for the linter that is not passed file names; and execution tasks
\* are dispatched only with a file set that is not empty.
C32_NoneSelected ==
    \A i \in DOMAIN argv_files : \A p \in ArgPaths :
        C24_Covers(argv_files[i], p) => ~(is_file(p) /\ include_search(p))

C32_NothingDispatched ==
    \A t \in Tasks :
        /\ pc[t] = "start" /\ proc[t] = NoProc /\ outcome[t] = Pending
        /\ ~ENABLED StartTask(t)

C32_EmptyFileSetEndsRun ==
    /\ (found_files # None /\ C32_NoneSelected) =>
          /\ found_files = Some(<<>>)
          /\ runState = "exit"
          /\ exitStatus = Some(0)
          /\ lock = FreeLock
          /\ C32_NothingDispatched
          /\ items = <<>> /\ raised = None
    /\ (\E t \in Tasks : pc[t] # "start") =>
          (found_files # None /\ found_files # Some(<<>>))

\* The only argument names a file that does not exist: the run has ended
\* with status 0 and the linter that takes no file names was not started.
C32_Witness ==
    /\ argv_files = <<"gone.py">>
    /\ found_files = Some(<<>>)
    /\ exitStatus = Some(0)
    /\ pc[PyRightTask] = "start"
    /\ proc[PyRightTask] = NoProc

====
